---- MODULE Spec2Model ----
(***************************************************************************)
(* sopix: the option parser that generate_parser emits, as a state machine. *)
(*                                                                         *)
(* A shell word is a sequence of characters, a character a one-character   *)
(* string.  The shell's positional parameters ("$@") are a sequence of     *)
(* words.  One action models one arm of the emitted `case` statement (one  *)
(* iteration of the `while` loop), and Finish the code after `done`.       *)
(***************************************************************************)
EXTENDS Integers, Sequences, FiniteSets, TLC

----------------------------------------------------------------------------
(* Characters and the bracket expressions of the emitted patterns (C locale) *)

Lower == {"a","b","c","d","e","f","g","h","i","j","k","l","m",
          "n","o","p","q","r","s","t","u","v","w","x","y","z"}
Upper == {"A","B","C","D","E","F","G","H","I","J","K","L","M",
          "N","O","P","Q","R","S","T","U","V","W","X","Y","Z"}
Digit == {"0","1","2","3","4","5","6","7","8","9"}

\* Code point order of the characters option spellings are made of
\* (what Python's string comparison sorts by).
AsciiOrder ==
    <<"-","0","1","2","3","4","5","6","7","8","9",
      "A","B","C","D","E","F","G","H","I","J","K","L","M",
      "N","O","P","Q","R","S","T","U","V","W","X","Y","Z","_",
      "a","b","c","d","e","f","g","h","i","j","k","l","m",
      "n","o","p","q","r","s","t","u","v","w","x","y","z">>

Ord(c) == CHOOSE i \in 1..Len(AsciiOrder) : AsciiOrder[i] = c

\* The fixed end-of-line marker, printf '\1\3\3\7': four control characters.
EOL == <<"\\1","\\3","\\3","\\7">>

TRUE_WORD == <<"t","r","u","e">>

----------------------------------------------------------------------------
(* Shell pattern matching: a pattern is a sequence of elements, each a     *)
(* literal character, `?`, `*` or a bracket expression.                    *)

Lit(c)   == [k |-> "set",  neg |-> FALSE, s |-> {c}]
In(S)    == [k |-> "set",  neg |-> FALSE, s |-> S]
NotIn(S) == [k |-> "set",  neg |-> TRUE,  s |-> S]
AnyChar  == [k |-> "set",  neg |-> TRUE,  s |-> {}]
Star     == [k |-> "star", neg |-> FALSE, s |-> {}]

\* A word used as a pattern with no special characters in it.
RECURSIVE Literal(_)
Literal(w) == IF Len(w) = 0 THEN <<>> ELSE <<Lit(Head(w))>> \o Literal(Tail(w))

RECURSIVE Match(_, _)
Match(p, w) ==
    IF Len(p) = 0 THEN Len(w) = 0
    ELSE IF Head(p).k = "star"
         THEN Match(Tail(p), w) \/ (Len(w) > 0 /\ Match(p, Tail(w)))
         ELSE /\ Len(w) > 0
              /\ (Head(w) \in Head(p).s) # Head(p).neg
              /\ Match(Tail(p), Tail(w))

\* "${w%?}": the word without its last character
StripLast(w) == IF Len(w) = 0 THEN w ELSE SubSeq(w, 1, Len(w) - 1)

\* The position of the first "=" of w, 0 when there is none
FirstEq(w) ==
    IF \E i \in 1..Len(w) : w[i] = "="
    THEN CHOOSE i \in 1..Len(w) : w[i] = "=" /\ \A j \in 1..(i-1) : w[j] # "="
    ELSE 0

\* "${w%%=*}": the longest suffix matching `=*` removed
BeforeEq(w) == IF FirstEq(w) = 0 THEN w ELSE SubSeq(w, 1, FirstEq(w) - 1)

\* "${w##*=}": the longest prefix matching `*=` removed, a value cut at
\* the last '=' instead of the first
AfterLastEq(w) ==
    IF \E i \in 1..Len(w) : w[i] = "="
    THEN LET k == CHOOSE i \in 1..Len(w) :
                      w[i] = "=" /\ \A j \in (i+1)..Len(w) : w[j] # "="
         IN  SubSeq(w, k + 1, Len(w))
    ELSE w

\* "${w#*=}": the shortest prefix matching `*=` removed
AfterEq(w) == IF FirstEq(w) = 0 THEN w ELSE SubSeq(w, FirstEq(w) + 1, Len(w))

\* "${w#-?}": the prefix `-?` removed when w starts with it
AfterDashChar(w) ==
    IF Len(w) >= 2 /\ w[1] = "-" THEN SubSeq(w, 3, Len(w)) ELSE w

\* "${w%$o}": the suffix o removed when w ends with it (o holds no
\* pattern character where the emitted code expands it: the arms before
\* the split let only alphanumeric bundles through).
RemoveSuffix(w, o) ==
    IF Len(o) <= Len(w) /\ SubSeq(w, Len(w) - Len(o) + 1, Len(w)) = o
    THEN SubSeq(w, 1, Len(w) - Len(o))
    ELSE w

----------------------------------------------------------------------------
(* The declared options: what _parse_docstring hands to generate_parser.   *)
(* An option is [short, long, argcount, value]; an absent short or long    *)
(* form (None) and an absent default are the empty word.                   *)

NONE == <<>>

Option(short, long, argcount, value) ==
    [short |-> short, long |-> long, argcount |-> argcount, value |-> value]

\* The options of DOC_EXAMPLE
DOC_EXAMPLE ==
    { Option(<<"-","h">>, <<"-","-","h","e","l","p">>, 0, NONE),
      Option(<<"-","f">>, <<"-","-","f","l","a","g">>, 0, NONE),
      Option(<<"-","n">>, <<"-","-","n","a","m","e">>, 1, <<"A","l","i","c","e">>),
      Option(NONE, <<"-","-","o","n","l","y","-","l","o","n","g">>, 0, NONE),
      Option(<<"-","v">>, NONE, 0, NONE) }

Docs == { DOC_EXAMPLE }

\* Python's str comparison: a < b
RECURSIVE StrLess(_, _)
StrLess(a, b) ==
    IF Len(b) = 0 THEN FALSE
    ELSE IF Len(a) = 0 THEN TRUE
    ELSE IF Head(a) # Head(b) THEN Ord(Head(a)) < Ord(Head(b))
    ELSE StrLess(Tail(a), Tail(b))

\* key=lambda o: (o.long or '', o.short or ''), compared as tuples
KeyLeq(o1, o2) ==
    \/ StrLess(o1.long, o2.long)
    \/ o1.long = o2.long /\ ~StrLess(o2.short, o1.short)

\* sorted(options, key=...): options is a set, so options with equal keys
\* come in either order.
SortedOptions(S) ==
    { q \in [1..Cardinality(S) -> S] :
        /\ \A o \in S : \E i \in DOMAIN q : q[i] = o
        /\ \A i, j \in DOMAIN q : i < j => KeyLeq(q[i], q[j]) }

\* str.lstrip("-")
RECURSIVE LStripDash(_)
LStripDash(w) ==
    IF Len(w) > 0 /\ Head(w) = "-" THEN LStripDash(Tail(w)) ELSE w

\* str.replace("-", "_")
RECURSIVE DashToUnderscore(_)
DashToUnderscore(w) ==
    IF Len(w) = 0 THEN <<>>
    ELSE <<IF Head(w) = "-" THEN "_" ELSE Head(w)>> \o DashToUnderscore(Tail(w))

opt_name(o) ==
    DashToUnderscore(LStripDash(IF o.long # NONE THEN o.long ELSE o.short))

HELP_NAME == <<"h","e","l","p">>

\* The options that get a case arm: `elif opt_name == 'help': continue`
Emitted(opts) == SelectSeq(opts, LAMBDA o : o.argcount > 0 \/ opt_name(o) # HELP_NAME)

\* A case line that lists the long spelling only
Spellings_long_only(o) ==
    SelectSeq(<<Literal(o.long)>>, LAMBDA p : Len(p) > 0)

\* The spellings a case arm of option o matches: `short | long`
Spellings(o) ==
    SelectSeq(<<Literal(o.short), Literal(o.long)>>, LAMBDA p : Len(p) > 0)

Arm(kind, pats, name, noarg, class) ==
    [kind |-> kind, pats |-> pats, name |-> name, noarg |-> noarg, class |-> class]

\* One case arm per emitted option, in the order of the options
cases(opts, minimal) ==
    LET e == Emitted(opts)
    IN  [i \in 1..Len(e) |->
            IF e[i].argcount > 0
            THEN Arm("assert_arg", Spellings(e[i]), opt_name(e[i]), FALSE, "")
            ELSE Arm("flag", Spellings(e[i]), opt_name(e[i]),
                     e[i].long # NONE /\ ~minimal, "")]

\* value.replace('"', r'\"')
RECURSIVE EscapeQuotes(_)
EscapeQuotes(v) ==
    IF Len(v) = 0 THEN <<>>
    ELSE (IF Head(v) = "\"" THEN <<"\\", "\"">> ELSE <<Head(v)>>)
         \o EscapeQuotes(Tail(v))

\* default_value: the text emitted after `=` in `${opt_NAME=...}`, nothing
\* for an option with no argument or no default, else the default between
\* double quotes
default_value(o) ==
    IF o.argcount > 0 /\ o.value # NONE
    THEN <<"\"">> \o EscapeQuotes(o.value) \o <<"\"">>
    ELSE <<>>

\* (name, default) of every emitted option, in the order of the options
name_default(opts) ==
    LET e == Emitted(opts)
    IN  [i \in 1..Len(e) |->
            [name |-> opt_name(e[i]), default |-> default_value(e[i])]]

----------------------------------------------------------------------------
(* The emitted `case "$opt" in` statement: its arms in order                *)

DD == <<Lit("-"), Lit("-")>>
AlNum == Lower \cup Upper \cup Digit
LowNum == Lower \cup Digit

\* -h | --help )
HelpArm(minimal) ==
    Arm("help", <<Literal(<<"-","h">>), Literal(<<"-","-","h","e","l","p">>)>>,
        <<>>, ~minimal, "")

\* --)
TerminatorArm == Arm("terminator", <<DD>>, <<>>, FALSE, "")

\* --[!=]*=*)
LongOptionArm ==
    Arm("long_option", <<DD \o <<NotIn({"="}), Star, Lit("="), Star>>>>, <<>>, FALSE, "")

\* Bad-option arms that lack the arm `-*[!A-Za-z0-9]*`
BAD_OPTION_FULL_no_symbols ==
    << Arm("bad_option",
           <<DD \o <<Star, NotIn({"-"} \cup LowNum), Star>>,
             DD \o <<Star>> \o DD \o <<Star>>>>,
           <<>>, FALSE, "invalid option"),
       Arm("bad_option", <<DD \o <<In(LowNum), Star, In(LowNum)>>>>,
           <<>>, FALSE, "unknown long option"),
       Arm("bad_option", <<<<Lit("-"), In(AlNum)>>>>,
           <<>>, FALSE, "unknown short option") >>

\* Bad-option arms whose first pattern list lacks `--*--*`
BAD_OPTION_FULL_no_doubled ==
    << Arm("bad_option", <<DD \o <<Star, NotIn({"-"} \cup LowNum), Star>>>>,
           <<>>, FALSE, "invalid option"),
       Arm("bad_option", <<DD \o <<In(LowNum), Star, In(LowNum)>>>>,
           <<>>, FALSE, "unknown long option"),
       Arm("bad_option", <<<<Lit("-"), Star, NotIn(AlNum), Star>>>>,
           <<>>, FALSE, "invalid option"),
       Arm("bad_option", <<<<Lit("-"), In(AlNum)>>>>,
           <<>>, FALSE, "unknown short option") >>

BAD_OPTION_FULL ==
    << \* --*[!-a-z0-9]* | --*--*)
       Arm("bad_option",
           <<DD \o <<Star, NotIn({"-"} \cup LowNum), Star>>,
             DD \o <<Star>> \o DD \o <<Star>>>>,
           <<>>, FALSE, "invalid option"),
       \* --[a-z0-9]*[a-z0-9])
       Arm("bad_option", <<DD \o <<In(LowNum), Star, In(LowNum)>>>>,
           <<>>, FALSE, "unknown long option"),
       \* -*[!A-Za-z0-9]*)
       Arm("bad_option", <<<<Lit("-"), Star, NotIn(AlNum), Star>>>>,
           <<>>, FALSE, "invalid option"),
       \* -[A-Za-z0-9])
       Arm("bad_option", <<<<Lit("-"), In(AlNum)>>>>,
           <<>>, FALSE, "unknown short option") >>

BAD_OPTION_MINIMAL ==
    << \* -[A-Za-z0-9] | -*[!A-Za-z0-9]*)
       Arm("bad_option",
           <<<<Lit("-"), In(AlNum)>>, <<Lit("-"), Star, NotIn(AlNum), Star>>>>,
           <<>>, FALSE, "invalid option") >>

\* -?*)
ShortOptionArm == Arm("short_option", <<<<Lit("-"), AnyChar, Star>>>>, <<>>, FALSE, "")

\* *)
PositionalArm == Arm("positional", <<<<Star>>>>, <<>>, FALSE, "")

\* PARSER_TEMPLATE's case statement with its placeholders substituted
Arms(opts, minimal) ==
    cases(opts, minimal)
    \o <<HelpArm(minimal), TerminatorArm, LongOptionArm>>
    \o (IF minimal THEN BAD_OPTION_MINIMAL ELSE BAD_OPTION_FULL)
    \o <<ShortOptionArm, PositionalArm>>

\* The option lists _parse_docstring may return for the documents
OptionLists == UNION {SortedOptions(d) : d \in Docs}

Matches(arm, w) == \E i \in 1..Len(arm.pats) : Match(arm.pats[i], w)

\* The arm the shell runs for word w: the first one with a matching pattern
\* (the last arm, `*`, matches every word)
RECURSIVE Selected(_, _)
Selected(a, w) ==
    IF Matches(Head(a), w) THEN Head(a) ELSE Selected(Tail(a), w)

----------------------------------------------------------------------------
(* The shell state of the emitted parser, as a record, and what each piece *)
(* of the emitted code does to it.                                         *)

Unset == [isset |-> FALSE, v |-> <<>>]
Bound(w) == [isset |-> TRUE, v |-> w]

\* The opt_NAME variables of the emitted script
Names(opts) == {name_default(opts)[i].name : i \in 1..Len(name_default(opts))}

\* What generate_parser(docstring, minimal) emits: the case arms, the
\* variables they bind, and the defaults line (`"" if minimal else defaults`)
generate_parser(opts, m) ==
    [arms |-> Arms(opts, m),
     names |-> Names(opts),
     defaults |-> IF m THEN <<>> ELSE name_default(opts)]

\* The emitted script started on argument vector av:
\* set -- "$@" "$EOL"; long=; short=; val=
Start(av, m, script) ==
    [minimal |-> m, arms |-> script.arms, defaults |-> script.defaults,
     args |-> av \o <<EOL>>,
     opt |-> <<>>, long |-> <<>>, short |-> <<>>, val |-> <<>>, other |-> <<>>,
     env |-> [n \in script.names |-> Unset],
     status |-> "scanning", exit |-> 0,
     diag |-> [class |-> "", word |-> <<>>]]

\* The parser generated for opts, started on argument vector av
Launch(av, opts, m) == Start(av, m, generate_parser(opts, m))

\* An assert_arg that lacks the test for a just split bundle
assert_arg_no_short(a1, a2, a3, a4) ==
    \/ a1 = EOL
    \/ a1 = <<"-","-">> /\ a2 # <<"-","-">>

\* An assert_arg that lacks the test for the sentinel
assert_arg_no_eol(a1, a2, a3, a4) ==
    \/ a1 = <<"-","-">> /\ a2 # <<"-","-">>
    \/ StripLast(a3) = <<"-">> /\ a3 = a4

\* HELPERS_FULL.assert_arg "$1" "$2" "$3" "$4": TRUE when it calls exit_usage
assert_arg(a1, a2, a3, a4) ==
    \/ a1 = EOL
    \/ a1 = <<"-","-">> /\ a2 # <<"-","-">>
    \/ StripLast(a3) = <<"-">> /\ a3 = a4

\* HELPERS_FULL.assert_noarg "$1" "$2": TRUE when it calls exit_usage
assert_noarg(a1, a2) == a1 = a2

\* HELPERS_MINIMAL.check "$1" "$2": TRUE when it calls exit2
check(a1) == ~(a1 # EOL /\ a1 # <<"-","-">>)

\* exit_usage "<message naming word>" (full), exit2 "<message>" "word" (minimal)
exit_usage(s, class, word) ==
    [s EXCEPT !.status = "usage", !.exit = 2,
              !.diag = [class |-> class, word |-> word]]

\* opt="$1"; shift
Shift(s) == [s EXCEPT !.opt = Head(s.args), !.args = Tail(s.args)]

\* An argument-taking arm whose diagnostic names "$1", the candidate value,
\* instead of the option
assert_arg_option_names_value(s, arm) ==
    LET t == Shift(s)
        missing == IF t.minimal THEN check(t.args[1])
                   ELSE assert_arg(t.args[1], t.val, t.opt, t.short)
    IN  IF missing THEN exit_usage(t, "missing argument", t.args[1])
        ELSE [t EXCEPT !.env[arm.name] = Bound(t.args[1]), !.args = Tail(t.args)]

\* An argument-taking arm that refuses a value that looks like an option
assert_arg_option_no_dash(s, arm) ==
    LET t == Shift(s)
        missing == \/ IF t.minimal THEN check(t.args[1])
                      ELSE assert_arg(t.args[1], t.val, t.opt, t.short)
                   \/ Len(t.args[1]) >= 2 /\ t.args[1][1] = "-"
    IN  IF missing THEN exit_usage(t, "missing argument", t.opt)
        ELSE [t EXCEPT !.env[arm.name] = Bound(t.args[1]), !.args = Tail(t.args)]

\* <spellings> ) assert_arg "$1" "$val" "$opt" "$short"; opt_NAME="$1"; shift;;
\* <spellings> ) check "$1" "$opt"; opt_NAME="$1"; shift;;
assert_arg_option(s, arm) ==
    LET t == Shift(s)
        missing == IF t.minimal THEN check(t.args[1])
                   ELSE assert_arg(t.args[1], t.val, t.opt, t.short)
    IN  IF missing THEN exit_usage(t, "missing argument", t.opt)
        ELSE [t EXCEPT !.env[arm.name] = Bound(t.args[1]), !.args = Tail(t.args)]

\* A flag arm that toggles: a second occurrence unsets the variable
flag_option_toggle(s, arm) ==
    LET t == Shift(s)
    IN  IF arm.noarg /\ assert_noarg(t.opt, t.long)
        THEN exit_usage(t, "no argument accepted", t.long)
        ELSE IF t.env[arm.name].isset THEN [t EXCEPT !.env[arm.name] = Unset]
        ELSE [t EXCEPT !.env[arm.name] = Bound(TRUE_WORD)]

\* <spellings> ) [assert_noarg "$opt" "$long"; ]opt_NAME="true";;
flag_option(s, arm) ==
    LET t == Shift(s)
    IN  IF arm.noarg /\ assert_noarg(t.opt, t.long)
        THEN exit_usage(t, "no argument accepted", t.long)
        ELSE [t EXCEPT !.env[arm.name] = Bound(TRUE_WORD)]

\* -h | --help ) [assert_noarg "$opt" "$long"; ]printf "%s\n" "$HELP"; exit 0;;
help(s, arm) ==
    LET t == Shift(s)
    IN  IF arm.noarg /\ assert_noarg(t.opt, t.long)
        THEN exit_usage(t, "no argument accepted", t.long)
        ELSE [t EXCEPT !.status = "help", !.exit = 0]

\* A rotation that moves one word only (`if` instead of `while`)
RotateOnce(a) == IF Head(a) = EOL THEN a ELSE Tail(a) \o <<Head(a)>>

\* while [ "$1" != "$EOL" ]; do set -- "$@" "$1"; shift; done
RECURSIVE Rotate(_)
Rotate(a) == IF Head(a) = EOL THEN a ELSE Rotate(Tail(a) \o <<Head(a)>>)

\* --) while ...; done;;
terminator(s) ==
    LET t == Shift(s) IN [t EXCEPT !.args = Rotate(t.args)]

\* A split of '--name=value' that does not record the name in $long
long_option_no_long(s) ==
    LET t == Shift(s)
        u == [t EXCEPT !.args = <<BeforeEq(t.opt), AfterEq(t.opt)>> \o t.args]
    IN  IF t.minimal THEN u ELSE [u EXCEPT !.val = AfterEq(t.opt)]

\* long="${opt%%=*}"; val="${opt#*=}"; set -- "$long" "$val" "$@";;
\* set -- "${opt%%=*}" "${opt#*=}" "$@";;
long_option(s) ==
    LET t == Shift(s)
        u == [t EXCEPT !.args = <<BeforeEq(t.opt), AfterEq(t.opt)>> \o t.args]
    IN  IF t.minimal THEN u
        ELSE [u EXCEPT !.long = BeforeEq(t.opt), !.val = AfterEq(t.opt)]

\* exit_usage "<class>: '$opt'";;     exit2 "invalid option" "$opt";;
bad_option(s, arm) ==
    LET t == Shift(s) IN exit_usage(t, arm.class, t.opt)

\* A split of a bundle that puts the remainder back without its dash
short_option_no_dash(s) ==
    LET t == Shift(s)
        o == AfterDashChar(t.opt)
        first == RemoveSuffix(t.opt, o)
        u == [t EXCEPT !.other = o, !.args = <<first, o>> \o t.args]
    IN  IF t.minimal THEN u ELSE [u EXCEPT !.short = first]

\* A split of a bundle that puts the whole bundle back behind its first
\* option
short_option_whole(s) ==
    LET t == Shift(s)
        o == AfterDashChar(t.opt)
        first == RemoveSuffix(t.opt, o)
        u == [t EXCEPT !.other = o, !.args = <<first, t.opt>> \o t.args]
    IN  IF t.minimal THEN u ELSE [u EXCEPT !.short = first]

\* other="${opt#-?}"; short="${opt%$other}"; set -- "$short" "-${other}" "$@";;
\* other="${opt#-?}"; set -- "${opt%$other}" "-${other}" "$@";;
short_option(s) ==
    LET t == Shift(s)
        o == AfterDashChar(t.opt)
        first == RemoveSuffix(t.opt, o)
        u == [t EXCEPT !.other = o, !.args = <<first, <<"-">> \o o>> \o t.args]
    IN  IF t.minimal THEN u ELSE [u EXCEPT !.short = first]

\* A positional arm that forgets to put the word back behind the sentinel
positional_drop(s) == Shift(s)

\* A rotation that leaves two copies of the word behind the sentinel
positional_twice(s) ==
    LET t == Shift(s) IN [t EXCEPT !.args = t.args \o <<t.opt, t.opt>>]

\* *) set -- "$@" "$opt";;
positional(s) ==
    LET t == Shift(s) IN [t EXCEPT !.args = t.args \o <<t.opt>>]

\* The value the shell assigns for the text t after `=` in "${name=t}": the
\* double quotes go, and a backslash before a backslash, a double quote or a
\* dollar goes and leaves that character.  (Parameter and command
\* substitution are left out: no default of the model holds a bare dollar
\* or a backquote.)
RECURSIVE Quoted(_)
Quoted(t) ==
    IF Len(t) = 0 THEN <<>>
    ELSE IF Head(t) = "\\" /\ Len(t) >= 2 /\ t[2] \in {"\\", "\"", "$"}
         THEN <<t[2]>> \o Quoted(Tail(Tail(t)))
    ELSE IF Head(t) = "\"" THEN Quoted(Tail(t))
    ELSE <<Head(t)>> \o Quoted(Tail(t))

\* : "${opt_A=<default>}" "${opt_B=<default>}" ...   (no such line in the
\* minimal rendering): each expansion assigns only if the variable is unset
RECURSIVE defaults(_, _)
defaults(e, nd) ==
    IF Len(nd) = 0 THEN e
    ELSE defaults(IF e[Head(nd).name].isset THEN e
                  ELSE [e EXCEPT ![Head(nd).name] = Bound(Quoted(Head(nd).default))],
                  Tail(nd))

\* done; shift  # $EOL        and the defaults after it
finish(s) ==
    [s EXCEPT !.args = Tail(s.args),
              !.env = defaults(s.env, s.defaults),
              !.status = "done", !.exit = 0]

\* The body of the arm the shell selects
Body(s, arm) ==
    CASE arm.kind = "assert_arg"   -> assert_arg_option(s, arm)
      [] arm.kind = "flag"         -> flag_option(s, arm)
      [] arm.kind = "help"         -> help(s, arm)
      [] arm.kind = "terminator"   -> terminator(s)
      [] arm.kind = "long_option"  -> long_option(s)
      [] arm.kind = "bad_option"   -> bad_option(s, arm)
      [] arm.kind = "short_option" -> short_option(s)
      [] arm.kind = "positional"   -> positional(s)

\* One test of the `while` condition and what follows it
Step(s) ==
    IF Head(s.args) = EOL THEN finish(s)
    ELSE Body(s, Selected(s.arms, Head(s.args)))

\* The emitted parser run to its end from shell state s
RECURSIVE Run(_)
Run(s) == IF s.status # "scanning" THEN s ELSE Run(Step(s))

----------------------------------------------------------------------------
(* The argument vectors the parser is run on                                *)

MaxArgs == 3

NAME_EQ == <<"-","-","n","a","m","e","=">>

\* Common words: a positional, the terminator, declared options
Words ==
    { <<"a">>,
      <<"-","-">>,
      <<"-","v">>,
      <<"-","n">>,
      <<"-","-","n","a","m","e">>,
      <<"-","-","f","l","a","g">>,
      <<"-","-","n","a","m","e","=","-","-">>,
      <<"-","f","n">> }

\* Words met less often: the empty word and the lone dash, help, malformed
\* and undeclared options, more bundles, and the sentinel typed by the user
OddWords ==
    { <<>>,
      <<"-">>,
      <<"-","h">>,
      <<"-","-","h","e","l","p">>,
      <<"-","-","h","e","l","p","=">>,
      <<"-","-","f","l","a","g","=","a">>,
      <<"-","-","n","a","m","e","=">>,
      <<"-","-","n","a","m","e","=","-","v">>,
      <<"-","-","n","a","m","e","=","=">>,
      <<"-","f","n","v">>,
      <<"-","f","v">>,
      <<"-","f","v","n">>,
      <<"-","f","x","v">>,
      <<"-","v","v">>,
      <<"-","-","a">>,
      <<"-","-","a","-","b">>,
      <<"-","-","-","a">>,
      <<"-","-","a","b">>,
      <<"-","-","a","b","=","a">>,
      <<"-","-","A">>,
      <<"-","-","a","-">>,
      <<"-","-","a","-","-","b">>,
      <<"-","-","=","a">>,
      <<"-","x">>,
      <<"-","f","!">>,
      EOL, NAME_EQ \o EOL }

\* The words that stand next to an odd word: a positional, the terminator,
\* the argument-taking option in its three spellings
CoreWords ==
    { <<"a">>,
      <<"-","-">>,
      <<"-","n">>,
      <<"-","-","n","a","m","e">>,
      <<"-","-","n","a","m","e","=","-","-">> }

\* The vectors of n core words whose i-th word is w
WithAt(n, i, w) == {v \in [1..n -> CoreWords] : v[i] = w}

----------------------------------------------------------------------------
VARIABLES argv, options, minimal, script, args, opt, long, short, val, other,
          env, status, exit, diag, pc,
          taken, split,  \* history: see Moved
          turns, splits  \* history: see Moved

vars == <<argv, options, minimal, script, args, opt, long, short, val, other,
          env, status, exit, diag, pc, taken, split, turns, splits>>

\* The shell state as a record
State ==
    [minimal |-> minimal, arms |-> script.arms, defaults |-> script.defaults,
     args |-> args, opt |-> opt,
     long |-> long, short |-> short, val |-> val, other |-> other,
     env |-> env, status |-> status, exit |-> exit, diag |-> diag]

\* Where control is in shell state s: the arm `case "$opt" in` runs for the
\* front word while [ "$1" != "$EOL" ] holds, "finish" when the loop ends,
\* "exit" once the script has ended.
Dispatch(s) ==
    IF s.status # "scanning" THEN "exit"
    ELSE IF Head(s.args) = EOL THEN "finish"
    ELSE Selected(s.arms, Head(s.args)).kind

\* History of the queue's front.  taken counts the words of argv that
\* `shift` has taken off the front, so argv[taken] is the word of the user
\* being processed; split counts the words now at the front that a
\* `set -- "$a" "$b" "$@"` put there.  A step shifts k words off the front
\* and then puts `pushed` words there.  turns counts the turns of the
\* `while` loop so far, splits those that ran a splitting arm.
Moved(k, pushed) ==
    /\ split' = (IF split >= k THEN split - k ELSE 0) + pushed
    /\ taken' = taken + (IF split >= k THEN 0 ELSE k - split)
    /\ turns' = turns + 1
    /\ splits' = splits + (IF pushed > 0 THEN 1 ELSE 0)

\* The number of words in front of the first sentinel of queue a
RECURSIVE Ahead(_)
Ahead(a) == IF Head(a) = EOL THEN 0 ELSE 1 + Ahead(Tail(a))

Becomes(s) ==
    /\ args' = s.args /\ opt' = s.opt /\ long' = s.long /\ short' = s.short
    /\ val' = s.val /\ other' = s.other /\ env' = s.env
    /\ status' = s.status /\ exit' = s.exit /\ diag' = s.diag
    /\ pc' = Dispatch(s)
    /\ UNCHANGED <<argv, options, minimal, script>>

Init ==
    /\ options \in OptionLists
    /\ minimal \in BOOLEAN
    /\ script = generate_parser(options, minimal)
    \* at most MaxArgs words, at most one of them odd
    /\ \E n \in 0..MaxArgs :
          \/ argv \in [1..n -> Words]
          \/ \E i \in 1..n : \E v \in WithAt(n, i, <<"a">>) : \E w \in OddWords :
                argv = [v EXCEPT ![i] = w]
    /\ \E s \in {Start(argv, minimal, script)} :
          /\ args = s.args /\ opt = s.opt /\ long = s.long /\ short = s.short
          /\ val = s.val /\ other = s.other /\ env = s.env
          /\ status = s.status /\ exit = s.exit /\ diag = s.diag
          /\ pc = Dispatch(s)
    /\ taken = 0 /\ split = 0 /\ turns = 0 /\ splits = 0

\* The arm `case "$opt"` selects for the front word
Arm1 == Selected(script.arms, Head(args))

AssertArgOption ==
    /\ pc = "assert_arg"
    /\ \E s \in {assert_arg_option(State, Arm1)} : Becomes(s) /\ Moved(IF s.status = "scanning" THEN 2 ELSE 1, 0)

FlagOption ==
    /\ pc = "flag"
    /\ \E s \in {flag_option(State, Arm1)} : Becomes(s) /\ Moved(1, 0)

Help ==
    /\ pc = "help"
    /\ \E s \in {help(State, Arm1)} : Becomes(s) /\ Moved(1, 0)

Terminator ==
    /\ pc = "terminator"
    /\ \E s \in {terminator(State)} : Becomes(s) /\ Moved(1 + Ahead(Tail(args)), 0)

LongOption ==
    /\ pc = "long_option"
    /\ \E s \in {long_option(State)} : Becomes(s) /\ Moved(1, 2)

BadOption ==
    /\ pc = "bad_option"
    /\ \E s \in {bad_option(State, Arm1)} : Becomes(s) /\ Moved(1, 0)

ShortOption ==
    /\ pc = "short_option"
    /\ \E s \in {short_option(State)} : Becomes(s) /\ Moved(1, 2)

Positional ==
    /\ pc = "positional"
    /\ \E s \in {positional(State)} : Becomes(s) /\ Moved(1, 0)

Finish ==
    /\ pc = "finish"
    /\ \E s \in {finish(State)} : Becomes(s) /\ UNCHANGED <<taken, split, turns, splits>>

Next ==
    \/ AssertArgOption \/ FlagOption \/ Help \/ Terminator \/ LongOption
    \/ BadOption \/ ShortOption \/ Positional \/ Finish

Spec == Init /\ [][Next]_vars

-----------------------------------------------------------------------------
(* Properties of the generated parser                                      *)

\* The user passed no word equal to the sentinel
NoSentinel == \A i \in 1..Len(argv) : argv[i] # EOL

\* The arm the emitted script selects for word w
ArmOf(w) == Selected(script.arms, w)

\* Word w is positional by shape: empty, not starting with '-', or a lone '-'
PositionalShape(w) == Len(w) = 0 \/ w[1] # "-" \/ w = <<"-">>

\* Word w has the '--name=value' form
EqualsForm(w) ==
    /\ Len(w) >= 4 /\ w[1] = "-" /\ w[2] = "-" /\ w[3] # "="
    /\ \E i \in 4..Len(w) : w[i] = "="

\* Word w is a bundle: '-' and two or more characters, the first not '-'
BundleForm(w) == Len(w) >= 3 /\ w[1] = "-" /\ w[2] # "-"

\* The positional arguments of the word list v, read from the left with no
\* sentinel and no rotation: a word of positional shape is kept, '--' keeps
\* everything after it, a declared argument-taking option takes the word
\* after it, '--name=value' and a bundle are read as the two words they
\* stand for, and any other option is passed over
RECURSIVE Positionals(_)
Positionals(v) ==
    IF Len(v) = 0 THEN <<>>
    ELSE LET w == Head(v) IN
         IF w = <<"-","-">> THEN Tail(v)
         ELSE IF PositionalShape(w) THEN <<w>> \o Positionals(Tail(v))
         ELSE IF ArmOf(w).kind = "assert_arg"
              THEN IF Len(v) >= 2 THEN Positionals(Tail(Tail(v))) ELSE <<>>
         ELSE IF ArmOf(w).kind \in {"flag", "help"} THEN Positionals(Tail(v))
         ELSE IF EqualsForm(w)
              THEN Positionals(<<BeforeEq(w), AfterEq(w)>> \o Tail(v))
         ELSE IF BundleForm(w)
              THEN Positionals(<<SubSeq(w, 1, 2)>>
                               \o <<<<"-">> \o SubSeq(w, 3, Len(w))>>
                               \o Tail(v))
         ELSE Positionals(Tail(v))

\* C1: when the parse succeeds on an argument vector that holds no word
\* equal to the sentinel, the final argument list is exactly the positional
\* words treated as positional while scanning (words not starting with '-',
\* the empty word and a lone '-'), in their original relative order,
\* followed by every word that came after the first '--' met while
\* scanning, in original order: nothing is lost, duplicated or reordered by
\* the rotations behind the sentinel.
C1_PositionalOrder ==
    (status = "done" /\ NoSentinel) => args = Positionals(argv)

\* A successful parse of <<x, '--', '-v'>>: x was rotated behind the
\* sentinel by the positional arm, '-v' by the terminator
C1_Witness ==
    /\ status = "done" /\ NoSentinel
    /\ Len(argv) = 3 /\ argv[2] = <<"-","-">> /\ argv[3] = <<"-","v">>
    /\ PositionalShape(argv[1])
    /\ args = <<argv[1], argv[3]>>

\* How many times word w occurs in the word list a
Count(a, w) == Cardinality({i \in 1..Len(a) : a[i] = w})

\* The words of word list a
Range(a) == {a[i] : i \in 1..Len(a)}

\* C2: once '--' is the front word while scanning, no later word is
\* interpreted: the parse ends successfully with no diagnostic, every option
\* variable keeps the value it had when '--' was reached (an unset one gets
\* what the defaults line gives it), and the final argument list holds the
\* words that were queued after '--', minus one sentinel; with no sentinel
\* among the user's words, it is the already rotated positionals followed
\* by the words after '--' in their order.
C2_TerminatorPassthrough ==
    pc = "terminator" =>
        LET f == Run(State)
            rest == Tail(args)
            k == Ahead(rest)
        IN  /\ f.status = "done" /\ f.exit = 0 /\ f.diag.class = ""
            /\ f.env = defaults(env, script.defaults)
            /\ \A w \in Range(rest) :
                  Count(f.args, w) = Count(rest, w) - (IF w = EOL THEN 1 ELSE 0)
            /\ Len(f.args) = Len(rest) - 1
            /\ NoSentinel =>
                  f.args = SubSeq(rest, k + 2, Len(rest)) \o SubSeq(rest, 1, k)

\* The parse of <<'--', '--name', '--ab'>> has ended: the declared '--name'
\* took no value and the undeclared '--ab' raised nothing
C2_Witness ==
    /\ status = "done" /\ exit = 0 /\ diag.class = ""
    /\ argv = << <<"-","-">>, <<"-","-","n","a","m","e">>, <<"-","-","a","b">> >>
    /\ opt = <<"-","-">>
    /\ args = << <<"-","-","n","a","m","e">>, <<"-","-","a","b">> >>
    /\ env[<<"n","a","m","e">>].v # <<"-","-","a","b">>

\* C3: in the full rendering, whenever a declared argument-taking option is
\* the front word as a word of its own (not one put there by splitting
\* '--name=value' or a bundle) and the word right after it is '--', the
\* parser fails with exit status 2 and a missing-argument diagnostic naming
\* that option, and binds nothing; whatever was processed before.
C3_MissingBeforeTerminator ==
    (~minimal /\ pc = "assert_arg" /\ split = 0 /\ args[2] = <<"-","-">>) =>
        LET n == Step(State)
        IN  /\ n.status = "usage" /\ n.exit = 2
            /\ n.diag = [class |-> "missing argument", word |-> Head(args)]
            /\ n.env = env

\* C4: whenever a declared argument-taking option is the front word and the
\* word after it is the sentinel, the parser fails with exit status 2 and a
\* missing-argument diagnostic naming that option, binds nothing and leaves
\* the sentinel and the positionals rotated behind it in the queue; and
\* while scanning the queue always holds a sentinel, so no value
\* consumption ever shifts it away.
C4_MissingAtEnd ==
    /\ (pc = "assert_arg" /\ args[2] = EOL) =>
          LET n == Step(State)
          IN  /\ n.status = "usage" /\ n.exit = 2
              /\ n.diag = [class |-> "missing argument", word |-> Head(args)]
              /\ n.env = env
              /\ n.args = Tail(args)
    /\ status = "scanning" => Count(args, EOL) >= 1

\* '--name' was the last word of <<x, '--name'>>: the parse failed with the
\* sentinel and the rotated x still queued
C4_Witness ==
    /\ status = "usage" /\ exit = 2
    /\ diag = [class |-> "missing argument",
               word |-> <<"-","-","n","a","m","e">>]
    /\ Len(argv) = 2 /\ argv[2] = <<"-","-","n","a","m","e">>
    /\ args = <<EOL, argv[1]>>
    /\ ~env[<<"n","a","m","e">>].isset

\* Character c is declared as a short option taking no argument / taking one
IsFlag(c) == ArmOf(<<"-", c>>).kind = "flag"
TakesArg(c) == ArmOf(<<"-", c>>).kind = "assert_arg"

\* The variable the short option -c binds
NameOf(c) == ArmOf(<<"-", c>>).name

\* Word w is '-' followed by two or more letters or digits
AlnumBundle(w) ==
    /\ Len(w) >= 3 /\ w[1] = "-"
    /\ \A i \in 2..Len(w) : w[i] \in AlNum

\* Shell state s after k more turns of the loop (fewer if the script exits)
RECURSIVE Steps(_, _)
Steps(s, k) == IF k = 0 \/ s.status # "scanning" THEN s ELSE Steps(Step(s), k - 1)

\* C5: in the full rendering, when the front word is an all-alphanumeric
\* bundle whose character X at position j is a declared argument-taking
\* short option followed by at least one more character, and the
\* characters before it are declared no-argument flags, the parse fails
\* with exit status 2 and a missing-argument diagnostic naming '-X', with
\* the flags before it bound and X's variable left as it was (the remainder
\* is never bound as its value).  When X is the last character of such a
\* bundle and a value word (neither the sentinel nor '--') follows, the
\* bundle is processed without failure and X's variable is that word.
C5_MissingInBundle ==
    (~minimal /\ pc = "short_option" /\ AlnumBundle(Head(args))) =>
        LET b == Head(args) IN
        /\ \A j \in 2..(Len(b) - 1) :
              (TakesArg(b[j]) /\ \A i \in 2..(j - 1) : IsFlag(b[i])) =>
                  LET f == Run(State)
                  IN  /\ f.status = "usage" /\ f.exit = 2
                      /\ f.diag = [class |-> "missing argument",
                                   word |-> <<"-", b[j]>>]
                      /\ \A i \in 2..(j - 1) :
                            f.env[NameOf(b[i])] = Bound(TRUE_WORD)
                      /\ f.env[NameOf(b[j])] = env[NameOf(b[j])]
        /\ ( /\ TakesArg(b[Len(b)])
             /\ \A i \in 2..(Len(b) - 1) : IsFlag(b[i])
             /\ args[2] \notin {EOL, <<"-","-">>} ) =>
                  LET g == Steps(State, 2 * (Len(b) - 1) - 1)
                  IN  /\ g.status = "scanning" /\ g.diag.class = ""
                      /\ g.env[NameOf(b[Len(b)])] = Bound(args[2])
                      /\ g.args = Tail(Tail(args))

\* The user's word '-fnv' has failed at '-n' after binding the flag f
C5_Witness ==
    /\ ~minimal /\ status = "usage" /\ exit = 2
    /\ taken >= 1 /\ argv[taken] = <<"-","f","n","v">>
    /\ diag = [class |-> "missing argument", word |-> <<"-","n">>]
    /\ env[<<"f","l","a","g">>] = Bound(TRUE_WORD)
    /\ ~env[<<"n","a","m","e">>].isset

\* The class of a failure, with the minimal rendering's wording ('invalid
\* option' for every bad option) read as the same class as the full one's
Classification(d) ==
    IF d.class \in {"invalid option", "unknown long option", "unknown short option"}
    THEN "bad option" ELSE d.class

\* C6: the full and the minimal rendering of the same options, run on the
\* same argument vector, end with the same exit status, the same failure
\* classification when they fail, the same value of every option variable
\* (once the defaults are applied to both) and the same final positional
\* list.
C6_RenderingsEquivalent ==
    pc = "exit" =>
        LET o == Run(Launch(argv, options, ~minimal))
            nd == name_default(options)
        IN  /\ o.exit = exit
            /\ o.status = status
            /\ Classification(o.diag) = Classification(diag)
            /\ defaults(o.env, nd) = defaults(env, nd)
            /\ status = "done" => o.args = args

\* The front word h is the name of the user's word '<h>=value' that was
\* just split
WrittenWithEq(h) ==
    /\ split = 2 /\ taken >= 1
    /\ EqualsForm(argv[taken])
    /\ Len(argv[taken]) > Len(h)
    /\ SubSeq(argv[taken], 1, Len(h) + 1) = h \o <<"=">>

\* C7: in the full rendering, a declared option that takes no argument, or
\* the built-in help option, met as the front word fails with exit status 2
\* and a no-argument-accepted diagnostic naming that spelling if and only
\* if the user wrote it as '--name=value'; written without '=' it is
\* accepted (the flag is bound, the help is shown), whatever '--x=value'
\* words were processed before it.
C7_NoArgumentRejection ==
    (~minimal /\ pc \in {"flag", "help"}) =>
        LET h == Head(args)
            n == Step(State)
            rejected == /\ n.status = "usage" /\ n.exit = 2
                        /\ n.diag = [class |-> "no argument accepted", word |-> h]
        IN  /\ rejected <=> WrittenWithEq(h)
            /\ ~WrittenWithEq(h) =>
                  /\ n.diag.class = "" /\ n.exit = 0
                  /\ pc = "flag" => n.env[ArmOf(h).name] = Bound(TRUE_WORD)
                  /\ pc = "help" => n.status = "help"

\* After '--name=--' was accepted with its value, '--flag=a' was rejected
\* and bound nothing
C7_Witness ==
    /\ ~minimal /\ status = "usage" /\ exit = 2
    /\ argv = << <<"-","-","n","a","m","e","=","-","-">>,
                 <<"a">>,
                 <<"-","-","f","l","a","g","=","a">> >>
    /\ taken = 3
    /\ diag = [class |-> "no argument accepted",
               word |-> <<"-","-","f","l","a","g">>]
    /\ env[<<"n","a","m","e">>] = Bound(<<"-","-">>)
    /\ ~env[<<"f","l","a","g">>].isset

\* C8: in the full rendering, when the front word is '<long>=V' with <long>
\* a declared argument-taking long option and V, everything after the first
\* '=', any word but the sentinel (empty, '--', starting with '-', spelling
\* an option, holding '='), two turns of the loop bind the option's
\* variable to exactly V and change no other variable, raise nothing, and
\* leave the queue as it was behind that word: scanning goes on with the
\* next word.
C8_EqualsBinding ==
    (~minimal /\ pc = "long_option") =>
        LET w == Head(args) IN
        \A k \in 1..Len(w) :
            LET nm == SubSeq(w, 1, k - 1)
                V == SubSeq(w, k + 1, Len(w))
            IN  ( /\ w[k] = "=" /\ \A i \in 1..(k - 1) : w[i] # "="
                  /\ ArmOf(nm).kind = "assert_arg"
                  /\ V # EOL ) =>
                    LET n == Steps(State, 2)
                    IN  /\ n.status = "scanning" /\ n.diag.class = ""
                        /\ n.env = [env EXCEPT ![ArmOf(nm).name] = Bound(V)]
                        /\ n.args = Tail(args)

\* '--name=--' has bound '--' and the word after it is now the front word
C8_Witness ==
    /\ ~minimal /\ status = "scanning"
    /\ Len(argv) = 2 /\ argv[1] = <<"-","-","n","a","m","e","=","-","-">>
    /\ taken = 1 /\ split = 0
    /\ env[<<"n","a","m","e">>] = Bound(<<"-","-">>)
    /\ args = <<argv[2], EOL>>

\* The long spelling of the declared short option -c, or '-c' if it has none
LongOf(c) ==
    LET o == CHOOSE o \in Range(Emitted(options)) : o.short = <<"-", c>>
    IN  IF o.long # NONE THEN o.long ELSE o.short

\* What a run of the parser shows when it has ended in shell state f
Outcome(f) ==
    [status |-> f.status, exit |-> f.exit, env |-> f.env,
     positionals |-> IF f.status = "done" THEN f.args ELSE <<>>]

\* C9: when the front word is a bundle of two or more declared short
\* options of which all but possibly the last take no argument (and, if the
\* last takes one, the next word is a value: neither the sentinel nor '--'),
\* the run from here ends with the same exit status, the same value of
\* every option variable and the same final positional list as the run
\* from the same state with the bundle replaced by the separate words
\* '-a' '-b' '-c', and as the run with their long spellings.
C9_BundlingEquivalence ==
    LET b == Head(args) IN
    ( /\ pc = "short_option" /\ AlnumBundle(b)
      /\ \A i \in 2..(Len(b) - 1) : IsFlag(b[i])
      /\ \/ IsFlag(b[Len(b)])
         \/ TakesArg(b[Len(b)]) /\ args[2] \notin {EOL, <<"-","-">>} ) =>
        LET separate == [i \in 1..(Len(b) - 1) |-> <<"-", b[i + 1]>>]
            longs == [i \in 1..(Len(b) - 1) |-> LongOf(b[i + 1])]
        IN  /\ Outcome(Run(State))
                 = Outcome(Run([State EXCEPT !.args = separate \o Tail(args)]))
            /\ Outcome(Run(State))
                 = Outcome(Run([State EXCEPT !.args = longs \o Tail(args)]))

\* The bundle '-fn' followed by a value has bound both options
C9_Witness ==
    /\ status = "done" /\ exit = 0
    /\ Len(argv) = 2 /\ argv[1] = <<"-","f","n">> /\ argv[2] = <<"a">>
    /\ env[<<"f","l","a","g">>] = Bound(TRUE_WORD)
    /\ env[<<"n","a","m","e">>] = Bound(argv[2])
    /\ args = <<>>

\* The option a front word '--...' names: the part before the first '=' if
\* the word has the '--name=value' form, else the whole word
Named(w) == IF EqualsForm(w) THEN BeforeEq(w) ELSE w

\* Name nm has the long-option lexical shape with at least n characters:
\* lowercase letters or digits, possibly separated by single hyphens, with
\* no leading or trailing hyphen
LongShape(nm, n) ==
    /\ Len(nm) >= n
    /\ \A i \in 1..Len(nm) : nm[i] \in LowNum \cup {"-"}
    /\ Len(nm) > 0 => nm[1] # "-" /\ nm[Len(nm)] # "-"
    /\ \A i \in 1..(Len(nm) - 1) : ~(nm[i] = "-" /\ nm[i + 1] = "-")

\* A front word that starts with '--', is not '--' and names neither a
\* declared option nor the help option ends the parse with exit status 2
\* and a diagnostic naming the option; the full rendering, which tells
\* unknown from invalid, classifies it 'unknown long option' if its name has
\* the long-option shape with at least n characters, and 'invalid option'
\* otherwise
LongClassified(n) ==
    LET w == Head(args) IN
    ( /\ status = "scanning"
      /\ Len(w) >= 3 /\ w[1] = "-" /\ w[2] = "-"
      /\ ArmOf(Named(w)).kind \notin {"assert_arg", "flag", "help"} ) =>
        LET s1 == Step(State)
            f == IF s1.status = "scanning" THEN Step(s1) ELSE s1
            nm == SubSeq(Named(w), 3, Len(Named(w)))
        IN  /\ f.status = "usage" /\ f.exit = 2
            /\ f.diag.word = Named(w)
            /\ Classification(f.diag) = "bad option"
            /\ ~minimal =>
                  f.diag.class = IF LongShape(nm, n) THEN "unknown long option"
                                 ELSE "invalid option"

\* C10 as stated: an undeclared '--...' word fails with exit status 2, and
\* (in the full rendering) is classified 'unknown long option' exactly when
\* its name has the long-option shape of one or more characters, 'invalid
\* option' otherwise.
C10_UnknownOneOrMore == LongClassified(1)

\* C10, amended: an undeclared '--...' word fails with exit status 2, and
\* (in the full rendering) is classified 'unknown long option' exactly when
\* its name has the long-option shape of two or more characters; every
\* other shape, a single-character name among them, is classified 'invalid
\* option'.
C10_UnknownTwoOrMore == LongClassified(2)

\* The user's '--ab=a' was split and its name reported as an unknown long
\* option
C10_Witness ==
    /\ ~minimal /\ status = "usage" /\ exit = 2
    /\ taken >= 1 /\ argv[taken] = <<"-","-","a","b","=","a">>
    /\ diag = [class |-> "unknown long option", word |-> <<"-","-","a","b">>]

\* Shell state f is a usage failure (exit status 2) naming word w, of a
\* bad-option class that the full rendering words as class c
BadOptionFailure(f, w, c) ==
    /\ f.status = "usage" /\ f.exit = 2
    /\ f.diag.word = w
    /\ Classification(f.diag) = "bad option"
    /\ ~f.minimal => f.diag.class = c

RECURSIVE Parts(_)
Parts(w) ==
    {w}
    \cup (IF EqualsForm(w) THEN {BeforeEq(w)} \cup Parts(AfterEq(w)) ELSE {})
    \cup (IF BundleForm(w) THEN {<<"-", w[i]>> : i \in 2..Len(w)} ELSE {})

\* The classes of usage failure
UsageClasses ==
    {"invalid option", "unknown long option", "unknown short option",
     "missing argument", "no argument accepted"}

\* C13 as stated: every usage failure has exit status 2 and its diagnostic
\* names the offending word exactly as it stands in the user's argument
\* vector, not the form produced by a split.
C13_NamesTokenAsTyped ==
    status = "usage" =>
        /\ exit = 2 /\ diag.class \in UsageClasses
        /\ taken >= 1 /\ diag.word = argv[taken]

\* C13, amended: every usage failure has exit status 2 and its diagnostic
\* names the option as the loop met it: the user's word when it was not
\* split, otherwise the part of it that a split put at the front of the
\* queue (the name before '=' of '--name=value', the '-X' taken from a
\* bundle); the failing step leaves the scanning state at once.
C13_NamesOptionAsMet ==
    /\ status = "usage" =>
          /\ exit = 2 /\ diag.class \in UsageClasses
          /\ taken >= 1 /\ diag.word \in Parts(argv[taken])
          /\ diag.word = opt \/ diag.word = long
          /\ pc = "exit"
    /\ (~minimal /\ status = "usage" /\ EqualsForm(argv[taken])) =>
          diag.word = BeforeEq(argv[taken])

\* The user's '--flag=a' failed with a diagnostic naming '--flag'
C13_Witness ==
    /\ status = "usage" /\ exit = 2
    /\ taken >= 1 /\ argv[taken] = <<"-","-","f","l","a","g","=","a">>
    /\ diag.word = <<"-","-","f","l","a","g">>
    /\ diag.word # argv[taken]

-----------------------------------------------------------------------------
(* The parser generated for other option lists                             *)

\* What _parse_docstring gets from docopt for a docstring: the options of
\* the usage pattern (pattern.flat(docopt.Option)) and the options of the
\* options section (docopt.parse_defaults), as lists
Doc(usage, section) == [pattern |-> usage, defaults |-> section]

OPT_V == Option(<<"-","v">>, NONE, 0, NONE)
OPT_FLAG == Option(<<"-","f">>, <<"-","-","f","l","a","g">>, 0, NONE)
OPT_HELP == Option(<<"-","h">>, <<"-","-","h","e","l","p">>, 0, NONE)
OPT_HOST == Option(<<"-","h">>, <<"-","-","h","o","s","t">>, 1, NONE)
OPT_HUSH == Option(<<"-","h">>, <<"-","-","h","u","s","h">>, 0, NONE)
OPT_HELP_TOPIC == Option(NONE, <<"-","-","h","e","l","p">>, 1, NONE)
OPT_A_B == Option(NONE, <<"-","-","a","-","b">>, 0, NONE)
OPT_A__B == Option(NONE, <<"-","-","a","_","b">>, 0, NONE)
\* -p PATH  [default: a\\b]   (two backslashes)
OPT_PATH == Option(<<"-","p">>, NONE, 1, <<"a","\\","\\","b">>)

\* Docstrings: no usage section and the usual help option; a usage pattern
\* that names an option of the options section; '-h' declared as an
\* argument-taking option and as a flag; '--help' declared with an
\* argument; two long options whose names differ in '-' against '_'
MoreDocs ==
    { Doc(<<>>, <<OPT_HELP, OPT_FLAG, OPT_V>>),
      Doc(<<OPT_V, OPT_FLAG>>, <<OPT_FLAG, OPT_V>>),
      Doc(<<>>, <<OPT_HOST, OPT_V>>),
      Doc(<<>>, <<OPT_HUSH>>),
      Doc(<<>>, <<OPT_HELP_TOPIC, OPT_V>>),
      Doc(<<>>, <<OPT_A_B, OPT_A__B>>),
      Doc(<<>>, <<OPT_PATH>>) }

\* options = set(options); options.update(defaults); options = sorted(...)
parse_docstring(d) == SortedOptions(Range(d.pattern) \cup Range(d.defaults))

DocOptionLists == UNION {parse_docstring(d) : d \in MoreDocs}

\* The spellings the options of list opts declare
Declared(opts) ==
    ({opts[i].short : i \in 1..Len(opts)} \cup {opts[i].long : i \in 1..Len(opts)})
        \ {NONE}

\* Characters put in place of one character of a spelling
Subst == {"x", "A", "-", "=", "!"}

\* Word t is word sp with one character, at position from or later,
\* replaced by another
OneOff(t, sp, from) ==
    /\ Len(t) = Len(sp)
    /\ \E i \in from..Len(sp) : t[i] # sp[i] /\ \A j \in 1..Len(sp) : j # i => t[j] = sp[j]

\* The words one substitution away from a declared spelling
OneOffs(opts) ==
    UNION { UNION { { [sp EXCEPT ![i] = c] : c \in Subst \ {sp[i]} }
                    : i \in 1..Len(sp) }
            : sp \in Declared(opts) }

\* The words the generated parser is tried on
DocWords(opts) ==
    Declared(opts) \cup OneOffs(opts)
        \cup { <<"-","h">>, <<"-","-","h","e","l","p">>, <<"-","-">>, <<"a">> }

InitDocs ==
    /\ options \in DocOptionLists
    /\ minimal \in BOOLEAN
    /\ script = generate_parser(options, minimal)
    \* no word, one word, or one word followed by a value
    /\ \/ argv = <<>>
       \/ \E w \in DocWords(options) : argv = <<w>> \/ argv = <<w, <<"a">>>>
    /\ \E s \in {Start(argv, minimal, script)} :
          /\ args = s.args /\ opt = s.opt /\ long = s.long /\ short = s.short
          /\ val = s.val /\ other = s.other /\ env = s.env
          /\ status = s.status /\ exit = s.exit /\ diag = s.diag
          /\ pc = Dispatch(s)
    /\ taken = 0 /\ split = 0 /\ turns = 0 /\ splits = 0

SpecDocs == InitDocs /\ [][Next]_vars

\* The position where the name of spelling sp starts, after its dashes
NameStart(sp) == IF sp[2] = "-" THEN 3 ELSE 2

\* The class the lexical rules give the undeclared option word t
LexicalClass(t) ==
    IF t[2] = "-"
    THEN IF LongShape(SubSeq(Named(t), 3, Len(Named(t))), 2)
         THEN "unknown long option" ELSE "invalid option"
    ELSE IF Len(t) = 2 /\ t[2] \in AlNum
         THEN "unknown short option" ELSE "invalid option"

\* The parser was run on exactly the spelling of an emitted option, plus
\* one value word if it takes an argument: it succeeds with exit status 0
\* and binds that option's variable
ExactSpellingBinds ==
    \A i \in 1..Len(Emitted(options)) :
        LET o == Emitted(options)[i] IN
        \A sp \in {o.short, o.long} \ {NONE} :
            ( /\ pc = "exit"
              /\ argv = IF o.argcount > 0 THEN <<sp, <<"a">>>> ELSE <<sp>> ) =>
                /\ status = "done" /\ exit = 0 /\ args = <<>>
                /\ env[opt_name(o)] = IF o.argcount > 0 THEN Bound(argv[2])
                                       ELSE Bound(TRUE_WORD)

\* The parser was run on one word that is a declared spelling with one
\* character replaced, at position from(spelling) or later, and that is
\* neither a declared spelling nor '-h', '--help' or one of the words of
\* set spared: it fails with exit status 2, classified by the lexical rules
OneOffFails(from(_), spared) ==
    ( /\ pc = "exit" /\ Len(argv) = 1
      /\ \E sp \in Declared(options) : OneOff(argv[1], sp, from(sp))
      /\ argv[1] \notin Declared(options) \cup spared
      /\ argv[1] \notin {<<"-","h">>, <<"-","-","h","e","l","p">>} ) =>
        BadOptionFailure(State, Named(argv[1]), LexicalClass(argv[1]))

FromFirst(sp) == 1

C14_HelpAlwaysRecognized ==
    ( /\ status = "scanning" /\ split = 0
      /\ Head(args) \in {<<"-","h">>, <<"-","-","h","e","l","p">>} ) =>
        LET n == Step(State)
        IN  /\ n.status = "help" /\ n.exit = 0
            /\ n.diag.class = ""
            /\ n.env = env

\* C18: for every list of declared options, an option whose derived
\* identifier is 'help' gets no case arm, no default and no variable in
\* the emitted parser, whether or not it takes an argument: the only arm
\* for help is the hard-coded one.
C18_HelpExcluded ==
    /\ \A i \in 1..Len(cases(options, minimal)) :
          cases(options, minimal)[i].name # HELP_NAME
    /\ \A i \in 1..Len(name_default(options)) :
          name_default(options)[i].name # HELP_NAME
    /\ HELP_NAME \notin script.names
    /\ ArmOf(<<"-","-","h","e","l","p">>).kind = "help"

\* C19: for every docstring, the options emitted as case arms have
\* pairwise distinct derived identifiers, each declared option appears
\* once even if both the usage pattern and the options section name it,
\* and the arms are ordered by (long, short), an absent form sorting as the
\* empty string.
C19_OptionModel ==
    LET e == Emitted(options) IN
    /\ \A i, j \in 1..Len(e) : i # j => opt_name(e[i]) # opt_name(e[j])
    /\ \A i, j \in 1..Len(options) : i # j => options[i] # options[j]
    /\ \A i, j \in 1..Len(e) : i < j => KeyLeq(e[i], e[j])
    /\ \A i \in 1..Len(e) : cases(options, minimal)[i].name = opt_name(e[i])

\* The option variables after the word list v is read from the left,
\* starting from variables e: every occurrence of an argument-taking
\* option (short, long, last of a bundle, or '--name=value') overrides the
\* variable with the value given with it, every occurrence of a
\* no-argument option makes its variable true, '--' ends the reading
RECURSIVE Reading(_, _)
Reading(v, e) ==
    IF Len(v) = 0 THEN e
    ELSE LET w == Head(v) IN
         IF w = <<"-","-">> THEN e
         ELSE IF PositionalShape(w) THEN Reading(Tail(v), e)
         ELSE IF ArmOf(w).kind = "assert_arg"
              THEN IF Len(v) >= 2
                   THEN Reading(Tail(Tail(v)),
                                [e EXCEPT ![ArmOf(w).name] = Bound(v[2])])
                   ELSE e
         ELSE IF ArmOf(w).kind = "flag"
              THEN Reading(Tail(v), [e EXCEPT ![ArmOf(w).name] = Bound(TRUE_WORD)])
         ELSE IF EqualsForm(w)
              THEN Reading(<<BeforeEq(w), AfterEq(w)>> \o Tail(v), e)
         ELSE IF BundleForm(w)
              THEN Reading(<<SubSeq(w, 1, 2)>>
                           \o <<<<"-">> \o SubSeq(w, 3, Len(w))>>
                           \o Tail(v), e)
         ELSE e

\* The variables the no-argument options bind
FlagNames ==
    {script.arms[i].name : i \in {j \in 1..Len(script.arms) : script.arms[j].kind = "flag"}}

\* C15: after every successful parse (of a vector with no word equal to
\* the sentinel) the variable of an argument-taking option holds the value
\* given with its last occurrence, however spelled, and the variable of a
\* no-argument option is true if the option occurs at least once, however
\* often it is repeated; and no turn of the loop resets a variable that is
\* true, or unsets one that is set.
C15_LastOccurrenceWins ==
    /\ (status = "done" /\ NoSentinel) =>
          env = defaults(Reading(argv, [n \in script.names |-> Unset]),
                         script.defaults)
    /\ status = "scanning" =>
          LET n == Step(State) IN
          /\ \A x \in script.names : env[x].isset => n.env[x].isset
          /\ \A x \in FlagNames :
                env[x] = Bound(TRUE_WORD) => n.env[x] = Bound(TRUE_WORD)

\* '-fn a' then '--name=--': the later value has overridden the earlier
\* one and the flag is still true
C15_Witness ==
    /\ status = "done" /\ exit = 0
    /\ argv = << <<"-","f","n">>, <<"a">>, <<"-","-","n","a","m","e","=","-","-">> >>
    /\ env[<<"n","a","m","e">>] = Bound(<<"-","-">>)
    /\ env[<<"f","l","a","g">>] = Bound(TRUE_WORD)

\* The loop is scheduled as long as the script runs
FairSpec == Spec /\ WF_vars(Next)

\* The total number of characters of the word list v
RECURSIVE Chars(_)
Chars(v) == IF Len(v) = 0 THEN 0 ELSE Len(Head(v)) + Chars(Tail(v))

\* The split steps so far are at most the characters of the input, the
\* turns of the loop at most the input words plus the words re-inserted by
\* splits, and a split puts back two words shorter than the one it replaces
Bounded ==
    /\ splits <= Chars(argv)
    /\ turns <= Len(argv) + 2 * splits
    /\ pc \in {"long_option", "short_option"} =>
          LET n == Step(State)
          IN  /\ Len(n.args) = Len(args) + 1
              /\ Len(n.args[1]) < Len(Head(args))
              /\ Len(n.args[2]) < Len(Head(args))

\* C16: on every argument vector the loop terminates, in the done state or
\* in a failure or help exit; meanwhile the number of split steps is at
\* most the number of characters of the input, the number of turns of the
\* loop is at most the number of input words plus the words re-inserted by
\* splits, and every split re-inserts words strictly shorter than the word
\* it replaces.
C16_Termination == []Bounded /\ <>(pc = "exit")

\* '-fvn a' was parsed in five turns of the loop, two of them splits
C16_Witness ==
    /\ pc = "exit" /\ status = "done"
    /\ argv = << <<"-","f","v","n">>, <<"a">> >>
    /\ splits = 2 /\ turns = 5

\* C17: after every successful parse by the full rendering (of a vector
\* with no word equal to the sentinel) every declared option that was never
\* supplied holds its declared default, the empty string when it has none
\* or takes no argument, and every option that was supplied holds the
\* supplied value, also when that value is the empty string.
C17_Defaults ==
    (status = "done" /\ ~minimal /\ NoSentinel) =>
        LET read == Reading(argv, [n \in DOMAIN env |-> Unset])
            e == Emitted(options)
        IN  \A i \in 1..Len(e) :
                LET n == opt_name(e[i])
                IN  IF read[n].isset THEN env[n] = read[n]
                    ELSE env[n] = Bound(IF e[i].argcount > 0 THEN e[i].value
                                        ELSE <<>>)

\* The pairs of words that splits can put at the front of the queue in
\* place of the user's word w: the name and the value of '--name=value', '-X'
\* and '-rest' of a bundle, and the pairs a further split makes of the second
RECURSIVE Pairs(_)
Pairs(w) ==
    IF EqualsForm(w)
    THEN {<<BeforeEq(w), AfterEq(w)>>} \cup Pairs(AfterEq(w))
    ELSE IF BundleForm(w)
    THEN LET rest == <<"-">> \o SubSeq(w, 3, Len(w))
         IN  {<<SubSeq(w, 1, 2), rest>>} \cup Pairs(rest)
    ELSE {}

\* The words of queue a in front of the sentinel, and those behind it
Front(a) == SubSeq(a, 1, Ahead(a))
Back(a) == SubSeq(a, Ahead(a) + 2, Len(a))

\* The queue at the top of the loop: one sentinel; in front of it the words
\* a split re-inserted, made from the user's word being processed, and then
\* the user's words not yet processed; behind it the positionals met so
\* far, in order, so that reading them and then the front gives the
\* positionals of the whole input; and one turn of the loop appends the
\* front word behind the sentinel if it is positional, everything after
\* the front word if that is '--', and leaves the words behind the sentinel
\* alone otherwise
Queue ==
    /\ Count(args, EOL) = 1
    /\ split \in 0..2 /\ split <= Ahead(args) /\ taken <= Len(argv)
    /\ SubSeq(args, split + 1, Ahead(args)) = SubSeq(argv, taken + 1, Len(argv))
    /\ split = 2 => <<args[1], args[2]>> \in Pairs(argv[taken])
    /\ split = 1 => \E p \in Pairs(argv[taken]) : p[2] = args[1]
    /\ Positionals(argv) = Back(args) \o Positionals(Front(args))
    /\ taken = 0 => Back(args) = <<>>
    /\ pc # "finish" =>
          LET n == Step(State)
          IN  n.status = "scanning" =>
                Back(n.args) = CASE pc = "positional" -> Back(args) \o <<Head(args)>>
                                 [] pc = "terminator" -> Back(args) \o Tail(Front(args))
                                 [] OTHER -> Back(args)

\* No split of a word of the user's puts the sentinel in the queue
NoSentinelPart ==
    \A i \in 1..Len(argv) : \A p \in Pairs(argv[i]) : p[1] # EOL /\ p[2] # EOL

\* C20 as stated: provided no user argument equals the sentinel, at the top
\* of every turn of the loop the queue holds exactly one sentinel, the words
\* before it are the not yet processed part of the input with any split
\* words at the very front, and the words after it are the positionals
\* rotated so far in the order they were met.
C20_QueueNoSentinelWord ==
    (NoSentinel /\ status = "scanning") => Queue

\* C20, amended: the same, provided no user argument equals the sentinel
\* and none holds it as the value of a '--name=value' word (or as any other
\* part a split would put in the queue).
C20_QueueNoSentinelPart ==
    (NoSentinel /\ NoSentinelPart /\ status = "scanning") => Queue

\* 'a -fn a' in the minimal rendering: the first 'a' is behind the
\* sentinel, '-n' is left of the bundle, the last 'a' is still to come
C20_Witness ==
    /\ status = "scanning" /\ minimal
    /\ argv = << <<"a">>, <<"-","f","n">>, <<"a">> >>
    /\ taken = 2 /\ split = 1
    /\ args = << <<"-","n">>, <<"a">>, EOL, <<"a">> >>

\* The front word is the '-X' a bundle split has just put there
JustSplitFromBundle ==
    split = 2 /\ Len(Head(args)) = 2 /\ Head(args)[2] # "-"

\* C21: when a declared argument-taking option is the front word and the
\* word after it is neither the sentinel nor '--' (and, in the full
\* rendering, the option is not the first part of a bundle just split), one
\* turn of the loop binds the option's variable to that word as it is,
\* whatever it spells (a declared option, '-h', an undeclared or an invalid
\* option, the empty word), sets no other variable, raises no failure and
\* takes both words off the queue.
C21_ValueVerbatim ==
    ( /\ pc = "assert_arg"
      /\ args[2] # EOL /\ args[2] # <<"-","-">>
      /\ minimal \/ ~JustSplitFromBundle ) =>
        LET n == Step(State)
        IN  /\ n.status = "scanning" /\ n.exit = 0 /\ n.diag.class = ""
            /\ n.env = [env EXCEPT ![ArmOf(Head(args)).name] = Bound(args[2])]
            /\ n.args = Tail(Tail(args))

\* '--name -f! a': the invalid option '-f!' was bound as the name, '-f' was
\* not set and 'a' is the only positional
C21_Witness ==
    /\ status = "done" /\ exit = 0 /\ diag.class = ""
    /\ argv = << <<"-","-","n","a","m","e">>, <<"-","f","!">>, <<"a">> >>
    /\ env[<<"n","a","m","e">>] = Bound(<<"-","f","!">>)
    /\ env[<<"f","l","a","g">>].v = <<>>
    /\ args = << <<"a">> >>

====
